---- MODULE Spec2Model ----
(***************************************************************************)
(* Medical-records service (services/medical-records-service/main.go):     *)
(* the HTTP handlers over the "medical_records" collection, modelled as a  *)
(* state machine.  One action per handler; the store calls of the MongoDB  *)
(* driver are operators on the collection.                                 *)
(***************************************************************************)
EXTENDS Integers, Sequences, FiniteSets, TLC

VARIABLES medical_records, nextOID, now, inflight, deletedLog, created,
          racing, proc, dashboard

vars == <<medical_records, nextOID, now, inflight, deletedLog, created,
          racing, proc, dashboard>>

\* the state that the requests served one at a time leave alone: the requests
\* served step by step, the process and its configuration, the dashboard
aside == <<racing, proc, dashboard>>

(***************************************************************************)
(* Bounds of the model.                                                    *)
(***************************************************************************)
\* how many identifiers primitive.NewObjectID() hands out in a run
MaxOIDs == 2
\* the wall clock runs from StartTime to MaxClock ticks
MaxClock == 4
\* clock ticks per millisecond (time.Time is finer than a BSON datetime)
TicksPerMs == 2
\* how many requests the server serves at a time while it shuts down
MaxActive == 2

\* calls of fetchHealthData awaiting their answer at once
MaxFetches == 2

(***************************************************************************)
(* Values.                                                                 *)
(***************************************************************************)
NilObjectID == 0
ZeroTime == 0
HexLen == 24
DefaultPage == <<"1">>
DefaultLimit == <<"1", "0">>

StatusOK == 200
StatusCreated == 201
StatusNoContent == 204
StatusBadRequest == 400
StatusNotFound == 404
StatusInternalServerError == 500
StatusServiceUnavailable == 503

RecordTypes == {"consultation", "diagnosis", "prescription", "lab_result", "imaging"}

\* a Go slice: nil, or a sequence of elements
NilSlice == [null |-> TRUE, elems |-> <<>>]
Slice(s) == [null |-> FALSE, elems |-> s]
\* the *VitalSigns pointer: nil, or a struct
NilVitalSigns == [null |-> TRUE, HeartRate |-> 0, MeasuredAt |-> ZeroTime]
VitalSigns(hr, t) == [null |-> FALSE, HeartRate |-> hr, MeasuredAt |-> t]

Diagnosis(code, sev, st, t) ==
    [Code |-> code, Severity |-> sev, Status |-> st, DateDiagnosed |-> t]
Prescription(name) == [MedicationName |-> name]
LabResult(name, st) == [TestName |-> name, Status |-> st]

StartTime == TicksPerMs

(***************************************************************************)
(* Identifiers: primitive.ObjectID as a number, its hex form as a sequence *)
(* of characters.                                                          *)
(***************************************************************************)
HexDigits == <<"0", "1", "2", "3", "4", "5", "6", "7", "8", "9", "a", "b", "c", "d", "e", "f">>
UpperHexDigits == <<"0", "1", "2", "3", "4", "5", "6", "7", "8", "9", "A", "B", "C", "D", "E", "F">>

IsHexChar(c) == \E i \in 1..16 : HexDigits[i] = c \/ UpperHexDigits[i] = c
HexVal(c) == (CHOOSE i \in 1..16 : HexDigits[i] = c \/ UpperHexDigits[i] = c) - 1

RECURSIVE HexDecode(_)
HexDecode(s) ==
    IF s = <<>> THEN 0
    ELSE 16 * HexDecode(SubSeq(s, 1, Len(s) - 1)) + HexVal(s[Len(s)])

RECURSIVE HexEncode(_, _)
HexEncode(n, width) ==
    IF width = 0 THEN <<>>
    ELSE Append(HexEncode(n \div 16, width - 1), HexDigits[(n % 16) + 1])

\* ObjectID.Hex()
Hex(oid) == HexEncode(oid, HexLen)

\* a faulty variant: the length of the string is not checked
ObjectIDFromHexAnyLength(s) ==
    IF \A i \in 1..Len(s) : IsHexChar(s[i])
    THEN [err |-> FALSE, oid |-> HexDecode(s)]
    ELSE [err |-> TRUE, oid |-> NilObjectID]

\* primitive.ObjectIDFromHex
ObjectIDFromHex(s) ==
    IF Len(s) # HexLen THEN [err |-> TRUE, oid |-> NilObjectID]
    ELSE IF \A i \in 1..Len(s) : IsHexChar(s[i])
         THEN [err |-> FALSE, oid |-> HexDecode(s)]
         ELSE [err |-> TRUE, oid |-> NilObjectID]

(***************************************************************************)
(* strconv.Atoi with the error dropped: the value, or 0 on a syntax error. *)
(***************************************************************************)
DecDigits == <<"0", "1", "2", "3", "4", "5", "6", "7", "8", "9">>
IsDecChar(c) == \E i \in 1..10 : DecDigits[i] = c
DecVal(c) == (CHOOSE i \in 1..10 : DecDigits[i] = c) - 1

RECURSIVE DecDecode(_)
DecDecode(s) ==
    IF s = <<>> THEN 0
    ELSE 10 * DecDecode(SubSeq(s, 1, Len(s) - 1)) + DecVal(s[Len(s)])

Atoi(s) ==
    LET signed == Len(s) > 0 /\ s[1] \in {"-", "+"}
        digits == IF signed THEN SubSeq(s, 2, Len(s)) ELSE s
    IN  IF digits = <<>> \/ \E i \in 1..Len(digits) : ~IsDecChar(digits[i])
        THEN 0
        ELSE IF signed /\ s[1] = "-" THEN 0 - DecDecode(digits) ELSE DecDecode(digits)

(***************************************************************************)
(* BSON: a time.Time is stored as a datetime of whole milliseconds, and a  *)
(* field tagged omitempty is left out when it is zero.                     *)
(***************************************************************************)
TruncMs(t) == t - (t % TicksPerMs)

MarshalDiagnosis(d) == [d EXCEPT !.DateDiagnosed = TruncMs(d.DateDiagnosed)]

MarshalVitalSigns(v) == IF v.null THEN v ELSE [v EXCEPT !.MeasuredAt = TruncMs(v.MeasuredAt)]

\* a faulty variant: times are stored as they are in memory
MarshalKeepingTicks(record) == record

\* bson.Marshal of a MedicalRecord and the decoding of the stored document
\* back into a MedicalRecord: every field but the times comes back as it was
Marshal(record) ==
    [record EXCEPT
        !.Diagnosis = [null |-> record.Diagnosis.null,
                       elems |-> [i \in 1..Len(record.Diagnosis.elems) |->
                                     MarshalDiagnosis(record.Diagnosis.elems[i])]],
        !.VitalSigns = MarshalVitalSigns(record.VitalSigns),
        !.CreatedAt = TruncMs(record.CreatedAt),
        !.UpdatedAt = TruncMs(record.UpdatedAt)]

\* the keys of the marshalled document: _id has omitempty (line 33)
MarshalledFields(record) ==
    IF record.ID = NilObjectID THEN DOMAIN record \ {"ID"} ELSE DOMAIN record

(***************************************************************************)
(* validate.Struct(&record): the fields whose tags fail.  The slices of    *)
(* nested entries carry no tag, so their elements are not visited.         *)
(***************************************************************************)
\* a faulty variant: record_type is only required
ViolationsWithoutOneOf(record) ==
    {f \in {"PatientID", "DoctorID", "RecordType", "Title"} : record[f] = ""}

Violations(record) ==
    {f \in {"PatientID", "DoctorID", "RecordType", "Title"} : record[f] = ""}
    \cup (IF record.RecordType # "" /\ record.RecordType \notin RecordTypes
          THEN {"RecordType"} ELSE {})

(***************************************************************************)
(* The collection: a function from _id to document.  Each operator is one  *)
(* call of the driver on db.Collection("medical_records").                 *)
(***************************************************************************)
InsertOne(coll, record) ==
    IF record.ID \in DOMAIN coll
    THEN [err |-> TRUE, coll |-> coll]
    ELSE [err |-> FALSE,
          coll |-> [i \in DOMAIN coll \cup {record.ID} |->
                       IF i = record.ID THEN Marshal(record) ELSE coll[i]]]

ErrNoDocuments == "mongo: no documents in result"

FindOne(coll, oid) ==
    IF oid \in DOMAIN coll
    THEN [err |-> "", record |-> coll[oid]]
    ELSE [err |-> ErrNoDocuments, record |-> <<>>]

\* a faulty variant: an _id in the $set document takes the place of the
\* matched document's _id
UpdateOneRekeying(coll, oid, record) ==
    LET doc == Marshal(record)
        set == MarshalledFields(record)
        key == IF "ID" \in set THEN doc.ID ELSE oid
    IN  IF oid \notin DOMAIN coll
        THEN [err |-> FALSE, MatchedCount |-> 0, coll |-> coll]
        ELSE [err |-> FALSE, MatchedCount |-> 1,
              coll |-> [i \in (DOMAIN coll \ {oid}) \cup {key} |->
                          IF i = key
                          THEN [f \in DOMAIN coll[oid] |->
                                   IF f \in set THEN doc[f] ELSE coll[oid][f]]
                          ELSE coll[i]]]

\* a faulty variant: the update is an upsert
UpdateOneUpserting(coll, oid, record) ==
    LET doc == Marshal(record)
        set == MarshalledFields(record)
    IN  IF oid \notin DOMAIN coll
        THEN [err |-> FALSE, MatchedCount |-> 0,
              coll |-> [i \in DOMAIN coll \cup {oid} |->
                          IF i = oid THEN [doc EXCEPT !.ID = oid] ELSE coll[i]]]
        ELSE IF "ID" \in set /\ doc.ID # oid
        THEN [err |-> TRUE, MatchedCount |-> 0, coll |-> coll]
        ELSE [err |-> FALSE, MatchedCount |-> 1,
              coll |-> [coll EXCEPT ![oid] =
                          [f \in DOMAIN coll[oid] |->
                              IF f \in set THEN doc[f] ELSE coll[oid][f]]]]

\* a faulty variant: a field-level merge, only the non-zero fields are set
UpdateOneMerging(coll, oid, record) ==
    LET doc == Marshal(record)
        zero == [ID |-> NilObjectID, PatientID |-> "", DoctorID |-> "",
                 RecordType |-> "", Title |-> "", Diagnosis |-> NilSlice,
                 Prescriptions |-> NilSlice, LabResults |-> NilSlice,
                 VitalSigns |-> NilVitalSigns, CreatedAt |-> ZeroTime,
                 UpdatedAt |-> ZeroTime, CreatedBy |-> "", LastModifiedBy |-> ""]
        set == {f \in MarshalledFields(record) : doc[f] # zero[f]}
    IN  IF oid \notin DOMAIN coll
        THEN [err |-> FALSE, MatchedCount |-> 0, coll |-> coll]
        ELSE IF "ID" \in set /\ doc.ID # oid
        THEN [err |-> TRUE, MatchedCount |-> 0, coll |-> coll]
        ELSE [err |-> FALSE, MatchedCount |-> 1,
              coll |-> [coll EXCEPT ![oid] =
                          [f \in DOMAIN coll[oid] |->
                              IF f \in set THEN doc[f] ELSE coll[oid][f]]]]

\* UpdateOne(filter {_id: oid}, {$set: record}): the fields of the marshalled
\* document replace those of the matched one; _id cannot be modified
UpdateOne(coll, oid, record) ==
    LET doc == Marshal(record)
        set == MarshalledFields(record)
    IN  IF oid \notin DOMAIN coll
        THEN [err |-> FALSE, MatchedCount |-> 0, coll |-> coll]
        ELSE IF "ID" \in set /\ doc.ID # oid
        THEN [err |-> TRUE, MatchedCount |-> 0, coll |-> coll]
        ELSE [err |-> FALSE, MatchedCount |-> 1,
              coll |-> [coll EXCEPT ![oid] =
                          [f \in DOMAIN coll[oid] |->
                              IF f \in set THEN doc[f] ELSE coll[oid][f]]]]

\* a faulty variant: the document is reported deleted and kept
DeleteOneKeeping(coll, oid) ==
    IF oid \in DOMAIN coll
    THEN [DeletedCount |-> 1, coll |-> coll]
    ELSE [DeletedCount |-> 0, coll |-> coll]

\* a faulty variant: the filter is dropped, every document is deleted
DeleteOneDroppingAll(coll, oid) ==
    IF oid \in DOMAIN coll
    THEN [DeletedCount |-> 1, coll |-> [i \in {} |-> coll[i]]]
    ELSE [DeletedCount |-> 0, coll |-> coll]

DeleteOne(coll, oid) ==
    IF oid \in DOMAIN coll
    THEN [DeletedCount |-> 1, coll |-> [i \in DOMAIN coll \ {oid} |-> coll[i]]]
    ELSE [DeletedCount |-> 0, coll |-> coll]

(***************************************************************************)
(* Request bodies, as the MedicalRecord that ShouldBindJSON decodes them   *)
(* into: a key the JSON omits leaves the zero value of its field.          *)
(***************************************************************************)
\* {patient_id:"p1", doctor_id:"d1", record_type:"consultation", title:"Checkup"}
Checkup ==
    [ID |-> NilObjectID, PatientID |-> "p1", DoctorID |-> "d1",
     RecordType |-> "consultation", Title |-> "Checkup",
     Diagnosis |-> NilSlice, Prescriptions |-> NilSlice, LabResults |-> NilSlice,
     VitalSigns |-> NilVitalSigns, CreatedAt |-> ZeroTime, UpdatedAt |-> ZeroTime,
     CreatedBy |-> "", LastModifiedBy |-> ""]

\* a record with nested entries, one of them dated between two milliseconds
Workup ==
    [Checkup EXCEPT
        !.RecordType = "diagnosis", !.Title = "Workup",
        !.Diagnosis = Slice(<<Diagnosis("J45", "mild", "chronic", StartTime + 1),
                              Diagnosis("E11", "severe", "active", StartTime)>>),
        !.Prescriptions = Slice(<<Prescription("salbutamol")>>),
        !.VitalSigns = VitalSigns(60, StartTime + 1)]

\* a body that carries the fields the service is meant to assign
Forged ==
    [Checkup EXCEPT
        !.ID = 1, !.PatientID = "p2", !.Title = "Forged",
        !.Diagnosis = Slice(<<Diagnosis("I10", "moderate", "resolved", StartTime)>>),
        !.Prescriptions = Slice(<<>>),
        !.LabResults = Slice(<<LabResult("hba1c", "normal")>>),
        !.CreatedAt = StartTime + 1, !.UpdatedAt = StartTime + 1,
        !.CreatedBy = "client", !.LastModifiedBy = "client"]

\* a partial body: {title:"Renamed"}
TitleOnly ==
    [Checkup EXCEPT !.PatientID = "", !.DoctorID = "", !.RecordType = "",
                    !.Title = "Renamed"]

\* a body without the required fields, dated after the clock's last reading
Postdated == [TitleOnly EXCEPT !.CreatedAt = MaxClock + TicksPerMs]

\* a body whose nested entries carry values outside their oneof sets
Mislabelled ==
    [Checkup EXCEPT
        !.Title = "Mislabelled",
        !.Diagnosis = Slice(<<Diagnosis("J45", "fatal", "unknown", StartTime)>>),
        !.LabResults = Slice(<<LabResult("hba1c", "pending")>>)]

ValidRecords == {Checkup, Workup, Forged}

InvalidRecords ==
    {[Checkup EXCEPT !.PatientID = ""], [Checkup EXCEPT !.DoctorID = ""],
     [Checkup EXCEPT !.RecordType = ""], [Checkup EXCEPT !.Title = ""],
     [Checkup EXCEPT !.RecordType = "unknown"], TitleOnly}

\* bindErr: the body is not JSON that decodes into a MedicalRecord
Body(r) == [bindErr |-> FALSE, record |-> r]
Malformed == [bindErr |-> TRUE, record |-> Checkup]

CreateBodies ==
    {Body(r) : r \in ValidRecords \cup InvalidRecords \cup {Mislabelled}} \cup {Malformed}
UpdateBodies == {Body(Checkup), Body(Forged), Body(Postdated), Malformed}

\* path parameters :id
NotAnId == <<"n", "o", "t", "-", "a", "-", "v", "a", "l", "i", "d", "-", "i", "d">>
ShortHex == SubSeq(Hex(1), 2, HexLen)
NonHex == [Hex(1) EXCEPT ![1] = "g"]
IdParams == {Hex(i) : i \in 0..(MaxOIDs + 1)} \cup {NotAnId, ShortHex, NonHex}

PatientParams == {"p1", "p2", "p3"}

(***************************************************************************)
(* Failures of a store call: the call returns an error before the store    *)
(* acted ("..._failed"), or the store acted and the reply did not arrive   *)
(* within the context's timeout ("..._reply_lost").                        *)
(***************************************************************************)
NoFault == "none"

\* what a handler yields: the response and the collection it leaves
Outcome(status, body, calls, coll) ==
    [status |-> status, body |-> body, calls |-> calls, coll |-> coll]

(***************************************************************************)
(* getMedicalRecord                                                        *)
(***************************************************************************)
getMedicalRecord(coll, id, fault) ==
    LET parsed == ObjectIDFromHex(id)
        found == FindOne(coll, parsed.oid)
    IN  IF parsed.err
        THEN Outcome(StatusBadRequest, "Invalid record ID", 0, coll)
        ELSE IF fault = "find_failed"
        THEN Outcome(StatusInternalServerError, "Failed to fetch record", 1, coll)
        ELSE IF found.err = ErrNoDocuments
        THEN Outcome(StatusNotFound, "Medical record not found", 1, coll)
        ELSE Outcome(StatusOK, found.record, 1, coll)

(***************************************************************************)
(* createMedicalRecord: oid is the value of primitive.NewObjectID(), t1    *)
(* and t2 the values of the two calls of time.Now().                       *)
(***************************************************************************)
\* a faulty variant: an id in the payload is kept
createMedicalRecordKeepingId(coll, body, oid, t1, t2, fault) ==
    LET record == [body.record EXCEPT
                      !.ID = IF @ # NilObjectID THEN @ ELSE oid,
                      !.CreatedAt = t1, !.UpdatedAt = t2]
        inserted == InsertOne(coll, record)
    IN  IF body.bindErr
        THEN Outcome(StatusBadRequest, "invalid request body", 0, coll)
        ELSE IF Violations(body.record) # {}
        THEN Outcome(StatusBadRequest, Violations(body.record), 0, coll)
        ELSE IF fault = "insert_failed" \/ inserted.err
        THEN Outcome(StatusInternalServerError, "Failed to create record", 1, coll)
        ELSE IF fault = "insert_reply_lost"
        THEN Outcome(StatusInternalServerError, "Failed to create record", 1, inserted.coll)
        ELSE Outcome(StatusCreated, record, 1, inserted.coll)

createMedicalRecord(coll, body, oid, t1, t2, fault) ==
    LET record == [body.record EXCEPT !.ID = oid, !.CreatedAt = t1, !.UpdatedAt = t2]
        inserted == InsertOne(coll, record)
    IN  IF body.bindErr
        THEN Outcome(StatusBadRequest, "invalid request body", 0, coll)
        ELSE IF Violations(body.record) # {}
        THEN Outcome(StatusBadRequest, Violations(body.record), 0, coll)
        ELSE IF fault = "insert_failed" \/ inserted.err
        THEN Outcome(StatusInternalServerError, "Failed to create record", 1, coll)
        ELSE IF fault = "insert_reply_lost"
        THEN Outcome(StatusInternalServerError, "Failed to create record", 1, inserted.coll)
        ELSE Outcome(StatusCreated, record, 1, inserted.coll)

\* the handler reaches lines 380-382 (a new identifier, two clock readings)
CreateReachesInsert(body) == ~body.bindErr /\ Violations(body.record) = {}

(***************************************************************************)
(* updateMedicalRecord: t is the value of time.Now().                      *)
(***************************************************************************)
updateMedicalRecord(coll, id, body, t, fault) ==
    LET parsed == ObjectIDFromHex(id)
        updateData == [body.record EXCEPT !.UpdatedAt = t]
        result == UpdateOne(coll, parsed.oid, updateData)
        found == FindOne(result.coll, parsed.oid)
    IN  IF parsed.err
        THEN Outcome(StatusBadRequest, "Invalid record ID", 0, coll)
        ELSE IF body.bindErr
        THEN Outcome(StatusBadRequest, "invalid request body", 0, coll)
        ELSE IF fault = "update_failed"
        THEN Outcome(StatusInternalServerError, "Failed to update record", 1, coll)
        ELSE IF fault = "update_reply_lost" \/ result.err
        THEN Outcome(StatusInternalServerError, "Failed to update record", 1, result.coll)
        ELSE IF result.MatchedCount = 0
        THEN Outcome(StatusNotFound, "Medical record not found", 1, result.coll)
        ELSE IF fault = "find_failed" \/ found.err # ""
        THEN Outcome(StatusInternalServerError, "Failed to fetch updated record", 2,
                     result.coll)
        ELSE Outcome(StatusOK, found.record, 2, result.coll)

(***************************************************************************)
(* deleteMedicalRecord                                                     *)
(***************************************************************************)
deleteMedicalRecord(coll, id, fault) ==
    LET parsed == ObjectIDFromHex(id)
        result == DeleteOne(coll, parsed.oid)
    IN  IF parsed.err
        THEN Outcome(StatusBadRequest, "Invalid record ID", 0, coll)
        ELSE IF fault = "delete_failed"
        THEN Outcome(StatusInternalServerError, "Failed to delete record", 1, coll)
        ELSE IF fault = "delete_reply_lost"
        THEN Outcome(StatusInternalServerError, "Failed to delete record", 1, result.coll)
        ELSE IF result.DeletedCount = 0
        THEN Outcome(StatusNotFound, "Medical record not found", 1, result.coll)
        ELSE Outcome(StatusNoContent, "", 1, result.coll)

(***************************************************************************)
(* getMedicalRecords                                                       *)
(***************************************************************************)
\* a query value: the key may be absent from the URL
Absent == [present |-> FALSE, value |-> <<>>]
Given(chars) == [present |-> TRUE, value |-> chars]

\* c.DefaultQuery
DefaultQuery(q, def) == IF q.present THEN q.value ELSE def

Query(patient, type, page, limit) ==
    [patient_id |-> patient, record_type |-> type, page |-> page, limit |-> limit]

Abs(n) == IF n < 0 THEN 0 - n ELSE n

\* Go's integer division: the quotient is truncated toward zero
GoDiv(a, b) ==
    IF (a < 0) = (b < 0) THEN Abs(a) \div Abs(b) ELSE 0 - (Abs(a) \div Abs(b))

\* the filter bson.M: a key is set only for a non-empty query value
Matches(doc, patientID, recordType) ==
    /\ (patientID # "" => doc.PatientID = patientID)
    /\ (recordType # "" => doc.RecordType = recordType)

Matching(coll, patientID, recordType) ==
    {i \in DOMAIN coll : Matches(coll[i], patientID, recordType)}

CountDocuments(coll, patientID, recordType) ==
    Cardinality(Matching(coll, patientID, recordType))

\* the orders SetSort({created_at: -1}) may give the matching documents:
\* documents of equal created_at come in either order
SortedByCreatedAtDesc(coll, ids) ==
    {s \in [1..Cardinality(ids) -> ids] :
        /\ \A i, j \in DOMAIN s : i # j => s[i] # s[j]
        /\ \A i, j \in DOMAIN s : i < j => coll[s[i]].CreatedAt >= coll[s[j]].CreatedAt}

Min(a, b) == IF a < b THEN a ELSE b

\* Find with SetSkip(skip) and SetLimit(limit) over the sorted documents: a
\* negative skip is refused by the store, a limit of 0 is no limit and a
\* negative limit is its absolute value
Find(coll, sorted, skip, limit) ==
    LET n == Len(sorted)
        last_ == IF limit = 0 THEN n ELSE Min(n, skip + Abs(limit))
    IN  IF skip < 0
        THEN [err |-> TRUE, records |-> <<>>]
        ELSE [err |-> FALSE,
              records |-> [k \in 1..(IF last_ > skip THEN last_ - skip ELSE 0) |->
                              coll[sorted[skip + k]]]]

\* line 329
totalPages(total, limitNum) == GoDiv(total + limitNum - 1, limitNum)

\* lines 306-339, after CountDocuments gave total: coll is the collection
\* that Find reads, sorted the order the store gives its matching documents
getMedicalRecordsFind(coll, query, sorted, total, fault) ==
    LET page == DefaultQuery(query.page, DefaultPage)
        limit == DefaultQuery(query.limit, DefaultLimit)
        pageNum == Atoi(page)
        limitNum == Atoi(limit)
        skip == (pageNum - 1) * limitNum
        found == Find(coll, sorted, skip, limitNum)
    IN  IF fault = "find_failed" \/ found.err
        THEN Outcome(StatusInternalServerError, "Failed to fetch records", 2, coll)
        ELSE IF fault = "decode_failed"
        THEN Outcome(StatusInternalServerError, "Failed to decode records", 2, coll)
        ELSE IF limitNum = 0
        \* integer divide by zero at line 329: gin.Recovery answers 500
        THEN Outcome(StatusInternalServerError, "", 2, coll)
        ELSE Outcome(StatusOK,
                     [records |-> found.records, total |-> total, page |-> pageNum,
                      limit |-> limitNum,
                      total_pages |-> totalPages(total, limitNum),
                      has_next |-> pageNum < totalPages(total, limitNum),
                      has_previous |-> pageNum > 1],
                     2, coll)

\* the handler served without another request between its two store calls
getMedicalRecords(coll, query, sorted, fault) ==
    IF fault = "count_failed"
    THEN Outcome(StatusInternalServerError, "Failed to count records", 1, coll)
    ELSE getMedicalRecordsFind(coll, query, sorted,
                               CountDocuments(coll, query.patient_id, query.record_type),
                               fault)

(***************************************************************************)
(* getPatientSummary                                                       *)
(***************************************************************************)
\* a faulty variant: a null sequence counts as one entry
SizeNullAsOne(slice) == IF slice.null THEN 1 ELSE Len(slice.elems)

\* {$size: {$ifNull: [field, []]}}
SizeIfNull(slice) == IF slice.null THEN 0 ELSE Len(slice.elems)

\* {$size: ...} of one document's field
SizeOf(doc, field) == SizeIfNull(doc[field])

\* {$sum: {$size: ...}} over the documents of a group
RECURSIVE SumSizes(_, _, _)
SumSizes(coll, ids, field) ==
    IF ids = {} THEN 0
    ELSE LET i == CHOOSE x \in ids : TRUE
         IN  SizeOf(coll[i], field) + SumSizes(coll, ids \ {i}, field)

\* {$max: "$created_at"}
MaxCreatedAt(coll, ids) ==
    CHOOSE t \in {coll[i].CreatedAt : i \in ids} : \A i \in ids : coll[i].CreatedAt <= t

\* a faulty variant: a patient without records gets a group of zeros
AggregateAlwaysGroups(coll, patientID) ==
    LET ids == {i \in DOMAIN coll : coll[i].PatientID = patientID}
    IN  <<[_id |-> patientID,
           total_records |-> Cardinality(ids),
           record_types |-> {coll[i].RecordType : i \in ids},
           latest_record |-> IF ids = {} THEN ZeroTime ELSE MaxCreatedAt(coll, ids),
           total_diagnoses |-> SumSizes(coll, ids, "Diagnosis"),
           total_prescriptions |-> SumSizes(coll, ids, "Prescriptions"),
           total_lab_results |-> SumSizes(coll, ids, "LabResults")]>>

\* the pipeline of lines 481-492: $match, then $group by patient_id; no group
\* comes out when nothing matches
Aggregate(coll, patientID) ==
    LET ids == {i \in DOMAIN coll : coll[i].PatientID = patientID}
    IN  IF ids = {} THEN <<>>
        ELSE <<[_id |-> patientID,
                total_records |-> Cardinality(ids),
                record_types |-> {coll[i].RecordType : i \in ids},
                latest_record |-> MaxCreatedAt(coll, ids),
                total_diagnoses |-> SumSizes(coll, ids, "Diagnosis"),
                total_prescriptions |-> SumSizes(coll, ids, "Prescriptions"),
                total_lab_results |-> SumSizes(coll, ids, "LabResults")]>>

getPatientSummary(coll, patientID, fault) ==
    LET summaries == Aggregate(coll, patientID)
    IN  IF patientID = ""
        THEN Outcome(StatusBadRequest, "Patient ID is required", 0, coll)
        ELSE IF fault = "aggregate_failed"
        THEN Outcome(StatusInternalServerError, "Failed to generate summary", 1, coll)
        ELSE IF fault = "decode_failed"
        THEN Outcome(StatusInternalServerError, "Failed to decode summary", 1, coll)
        ELSE IF Len(summaries) = 0
        THEN Outcome(StatusNotFound, "No records found for patient", 1, coll)
        ELSE Outcome(StatusOK, summaries[1], 1, coll)

(***************************************************************************)
(* healthHandler: t is the value of time.Now(), written in RFC 3339 with   *)
(* the precision of a second.  The store is not consulted.                 *)
(***************************************************************************)
healthHandler(coll, t) ==
    Outcome(StatusOK,
            [status |-> "healthy", service |-> "medical-records-service",
             timestamp |-> t \div (1000 * TicksPerMs), version |-> "1.0.0"],
            0, coll)

(***************************************************************************)
(* readinessHandler: err is the text of the error Ping returned.           *)
(***************************************************************************)
\* a faulty variant: the result of the ping is ignored
readinessHandlerAlwaysReady(coll, fault, err) ==
    Outcome(StatusOK, [status |-> "ready", database |-> "connected"], 1, coll)

\* texts of errors the driver returns when the store cannot be reached
PingErrors == {"context deadline exceeded", "server selection error: connection refused"}

readinessHandler(coll, fault, err) ==
    IF fault = "ping_failed"
    THEN Outcome(StatusServiceUnavailable,
                 [status |-> "not ready", database |-> "disconnected", error |-> err],
                 1, coll)
    ELSE Outcome(StatusOK, [status |-> "ready", database |-> "connected"], 1, coll)

(***************************************************************************)
(* The requests the model sends.                                           *)
(***************************************************************************)
One == <<"1">>
Two == <<"2">>

ListQueries ==
    {Query(p, t, Absent, Absent) :
        p \in {"", "p1"}, t \in {"", "consultation"}}
    \cup {Query("", "", Given(pg), Given(lm)) : pg \in {One, Two}, lm \in {One, Two}}
    \cup {Query("p1", "", Given(Two), Given(One)),
          Query("", "", Given(<<"a", "b", "c">>), Absent),
          Query("", "", Given(<<>>), Absent),
          Query("", "", Given(<<"0">>), Absent),
          Query("", "", Given(<<"-", "1">>), Absent),
          Query("", "", Absent, Given(<<"x">>)),
          Query("", "", Absent, Given(<<"0">>)),
          Query("", "", Absent, Given(<<"-", "2">>)),
          Query("", "", Given(<<"0">>), Given(<<"-", "1">>)),
          Query("", "", Given(<<"0">>), Given(<<"0">>))}

ListRequests ==
    {[op |-> "list", query |-> q, fault |-> NoFault] : q \in ListQueries}
    \cup {[op |-> "list", query |-> Query("", "", Absent, Absent), fault |-> f] :
             f \in {"count_failed", "find_failed", "decode_failed"}}

GetRequests ==
    {[op |-> "get", id |-> id, fault |-> NoFault] : id \in IdParams}
    \cup {[op |-> "get", id |-> Hex(1), fault |-> "find_failed"]}

DeleteRequests ==
    {[op |-> "delete", id |-> id, fault |-> NoFault] : id \in IdParams}
    \cup {[op |-> "delete", id |-> Hex(1), fault |-> f] :
             f \in {"delete_failed", "delete_reply_lost"}}

UpdateRequests ==
    {[op |-> "update", id |-> id, body |-> b, fault |-> NoFault] :
        id \in {Hex(i) : i \in 1..(MaxOIDs + 1)} \cup {NotAnId}, b \in UpdateBodies}
    \cup {[op |-> "update", id |-> Hex(1), body |-> Body(Checkup), fault |-> f] :
             f \in {"update_failed", "update_reply_lost", "find_failed"}}

CreateRequests ==
    {[op |-> "create", body |-> b, fault |-> NoFault] : b \in CreateBodies}
    \cup {[op |-> "create", body |-> Body(Checkup), fault |-> f] :
             f \in {"insert_failed", "insert_reply_lost"}}

SummaryRequests ==
    {[op |-> "summary", patient_id |-> p, fault |-> NoFault] : p \in PatientParams}
    \cup {[op |-> "summary", patient_id |-> "p1", fault |-> f] :
             f \in {"aggregate_failed", "decode_failed"}}

ReadyRequests ==
    {[op |-> "ready", fault |-> NoFault, err |-> ""]}
    \cup {[op |-> "ready", fault |-> "ping_failed", err |-> e] : e \in PingErrors}

\* GET /health, with the store reachable or not
HealthRequests ==
    {[op |-> "health", fault |-> f] : f \in {NoFault, "store_unreachable"}}

(***************************************************************************)
(* The state machine.  Requests are served one at a time: inflight is the  *)
(* request being answered with its response, until the client has it;      *)
(* created is the record of the latest 201 response, as the client holds   *)
(* it until it sends an update or a delete for that identifier.            *)
(***************************************************************************)
EmptyCollection == [i \in {} |-> Checkup]

Idle == [req |-> [op |-> "none", fault |-> NoFault], status |-> 0, body |-> "", calls |-> 0]

Served(req, out) ==
    [req |-> req, status |-> out.status, body |-> out.body, calls |-> out.calls]

NothingCreated == [held |-> FALSE, record |-> Checkup]

\* the client's copy after a request to change or remove the record id names
Forget(copy, id) ==
    IF copy.held /\ ~ObjectIDFromHex(id).err /\ ObjectIDFromHex(id).oid = copy.record.ID
    THEN NothingCreated
    ELSE copy

\* no request is served step by step
NoneRacing == [w \in {} |-> Idle]

\* the process serving, as main leaves it once the server listens
Serving == [pc |-> "serving"]

\* no dashboard is open
NoDashboard == [mounted |-> FALSE]

Init ==
    /\ racing = NoneRacing
    /\ proc = Serving
    /\ dashboard = NoDashboard
    /\ created = NothingCreated
    /\ medical_records = EmptyCollection
    /\ nextOID = 1
    /\ now = StartTime
    /\ inflight = Idle
    /\ deletedLog = {}

\* time passes between two requests
Tick ==
    /\ UNCHANGED aside
    /\ inflight.status = 0
    /\ now < MaxClock
    /\ now' = now + 1
    /\ UNCHANGED <<medical_records, nextOID, inflight, deletedLog, created>>

\* the response reaches the client
Respond ==
    /\ UNCHANGED aside
    /\ inflight.status # 0
    /\ inflight' = Idle
    /\ UNCHANGED <<medical_records, nextOID, now, deletedLog, created>>

\* POST /api/medical-records; the clock may advance between the two readings
Create ==
    /\ UNCHANGED aside
    /\ inflight.status = 0
    /\ \E req \in CreateRequests, d \in {0, 1} :
        LET out == createMedicalRecord(medical_records, req.body, nextOID, now, now + d,
                                       req.fault)
        IN  /\ IF CreateReachesInsert(req.body)
               THEN /\ nextOID <= MaxOIDs
                    /\ now + d <= MaxClock
                    /\ nextOID' = nextOID + 1
                    /\ now' = now + d
               ELSE /\ d = 0
                    /\ UNCHANGED <<nextOID, now>>
            /\ medical_records' = out.coll
            /\ inflight' = Served(req, out)
            /\ created' = IF out.status = StatusCreated
                          THEN [held |-> TRUE, record |-> out.body]
                          ELSE created
            /\ UNCHANGED deletedLog

\* GET /api/medical-records/:id
Get ==
    /\ UNCHANGED aside
    /\ inflight.status = 0
    /\ \E req \in GetRequests :
        LET out == getMedicalRecord(medical_records, req.id, req.fault)
        IN  /\ inflight' = Served(req, out)
            /\ UNCHANGED <<medical_records, nextOID, now, deletedLog, created>>

\* PUT /api/medical-records/:id
Update ==
    /\ UNCHANGED aside
    /\ inflight.status = 0
    /\ \E req \in UpdateRequests :
        LET out == updateMedicalRecord(medical_records, req.id, req.body, now, req.fault)
        IN  /\ medical_records' = out.coll
            /\ inflight' = Served(req, out)
            /\ created' = Forget(created, req.id)
            /\ UNCHANGED <<nextOID, now, deletedLog>>

\* DELETE /api/medical-records/:id; line 466 logs the identifier deleted
Delete ==
    /\ UNCHANGED aside
    /\ inflight.status = 0
    /\ \E req \in DeleteRequests :
        LET out == deleteMedicalRecord(medical_records, req.id, req.fault)
        IN  /\ medical_records' = out.coll
            /\ inflight' = Served(req, out)
            /\ deletedLog' = IF out.status = StatusNoContent
                             THEN deletedLog \cup {ObjectIDFromHex(req.id).oid}
                             ELSE deletedLog
            /\ created' = Forget(created, req.id)
            /\ UNCHANGED <<nextOID, now>>

\* GET /api/medical-records
List ==
    /\ UNCHANGED aside
    /\ inflight.status = 0
    /\ \E req \in ListRequests :
        \E sorted \in SortedByCreatedAtDesc(medical_records,
                         Matching(medical_records, req.query.patient_id,
                                  req.query.record_type)) :
            LET out == getMedicalRecords(medical_records, req.query, sorted, req.fault)
            IN  /\ inflight' = Served(req, out)
                /\ UNCHANGED <<medical_records, nextOID, now, deletedLog, created>>

\* GET /api/patients/:patient_id/summary
Summary ==
    /\ UNCHANGED aside
    /\ inflight.status = 0
    /\ \E req \in SummaryRequests :
        LET out == getPatientSummary(medical_records, req.patient_id, req.fault)
        IN  /\ inflight' = Served(req, out)
            /\ UNCHANGED <<medical_records, nextOID, now, deletedLog, created>>

\* GET /ready
Ready ==
    /\ UNCHANGED aside
    /\ inflight.status = 0
    /\ \E req \in ReadyRequests :
        LET out == readinessHandler(medical_records, req.fault, req.err)
        IN  /\ inflight' = Served(req, out)
            /\ UNCHANGED <<medical_records, nextOID, now, deletedLog, created>>

\* GET /health
Health ==
    /\ UNCHANGED aside
    /\ inflight.status = 0
    /\ \E req \in HealthRequests :
        LET out == healthHandler(medical_records, now)
        IN  /\ inflight' = Served(req, out)
            /\ UNCHANGED <<medical_records, nextOID, now, deletedLog, created>>

Next ==
    \/ Tick \/ Respond \/ Create \/ Get \/ Update \/ Delete \/ List \/ Summary
    \/ Ready \/ Health

Spec == Init /\ [][Next]_vars

(***************************************************************************)
(* A second specification: one List request served store call by store     *)
(* call, while the handlers of other connections' Create and Delete        *)
(* requests run (gin serves each request in its own goroutine, and the     *)
(* handlers share nothing but the store).  inflight is the List request:   *)
(* after CountDocuments it holds the count in body, with calls = 1.        *)
(***************************************************************************)
\* lines 301-305: CountDocuments
ListCount ==
    /\ UNCHANGED aside
    /\ inflight.status = 0
    /\ inflight.calls = 0
    /\ \E req \in ListRequests :
        inflight' =
            IF req.fault = "count_failed"
            THEN Served(req, Outcome(StatusInternalServerError, "Failed to count records",
                                     1, medical_records))
            ELSE [req |-> req, status |-> 0,
                  body |-> CountDocuments(medical_records, req.query.patient_id,
                                          req.query.record_type),
                  calls |-> 1]
    /\ UNCHANGED <<medical_records, nextOID, now, deletedLog, created>>

\* lines 306-339: Find, cursor.All and the response
ListFind ==
    /\ UNCHANGED aside
    /\ inflight.status = 0
    /\ inflight.calls = 1
    /\ \E sorted \in SortedByCreatedAtDesc(medical_records,
                        Matching(medical_records, inflight.req.query.patient_id,
                                 inflight.req.query.record_type)) :
        LET out == getMedicalRecordsFind(medical_records, inflight.req.query, sorted,
                                         inflight.body, inflight.req.fault)
        IN  inflight' = Served(inflight.req, out)
    /\ UNCHANGED <<medical_records, nextOID, now, deletedLog, created>>

\* POST /api/medical-records of another connection
ConcurrentCreate ==
    /\ UNCHANGED aside
    /\ \E req \in CreateRequests, d \in {0, 1} :
        LET out == createMedicalRecord(medical_records, req.body, nextOID, now, now + d,
                                       req.fault)
        IN  /\ IF CreateReachesInsert(req.body)
               THEN /\ nextOID <= MaxOIDs
                    /\ now + d <= MaxClock
                    /\ nextOID' = nextOID + 1
                    /\ now' = now + d
               ELSE /\ d = 0
                    /\ UNCHANGED <<nextOID, now>>
            /\ medical_records' = out.coll
            /\ UNCHANGED <<inflight, deletedLog, created>>

\* DELETE /api/medical-records/:id of another connection
ConcurrentDelete ==
    /\ UNCHANGED aside
    /\ \E req \in DeleteRequests :
        LET out == deleteMedicalRecord(medical_records, req.id, req.fault)
        IN  /\ medical_records' = out.coll
            /\ deletedLog' = IF out.status = StatusNoContent
                             THEN deletedLog \cup {ObjectIDFromHex(req.id).oid}
                             ELSE deletedLog
            /\ UNCHANGED <<inflight, nextOID, now, created>>

NextInterleaved ==
    ListCount \/ ListFind \/ Respond \/ ConcurrentCreate \/ ConcurrentDelete \/ Tick

SpecInterleaved == Init /\ [][NextInterleaved]_vars

(***************************************************************************)
(* A third specification: two Update requests served store call by store   *)
(* call, each in its goroutine, while Delete requests of other connections *)
(* run.  racing[w] is the request of goroutine w: its position in          *)
(* updateMedicalRecord, the clock reading of line 412 and its response.    *)
(***************************************************************************)
Racers == {"a", "b"}

IdleRacer ==
    [pc |-> "idle", req |-> [op |-> "none", fault |-> NoFault], t |-> ZeroTime,
     status |-> 0, body |-> ""]

\* the response is written and the goroutine ends
Done(r, status, body) == [r EXCEPT !.pc = "done", !.status = status, !.body = body]

\* the Update requests that race: on the stored record, or malformed
RaceRequests ==
    {r \in UpdateRequests : r.fault = NoFault /\ r.id \in {Hex(1), NotAnId}}

\* one record is stored, created from Workup at the start of the run
RaceInit ==
    /\ medical_records =
          createMedicalRecord(EmptyCollection, Body(Workup), 1, StartTime, StartTime,
                              NoFault).coll
    /\ nextOID = 2
    /\ now = StartTime
    /\ inflight = Idle
    /\ deletedLog = {}
    /\ created = NothingCreated
    /\ racing = [w \in Racers |-> IdleRacer]
    /\ proc = Serving
    /\ dashboard = NoDashboard

\* lines 399-412: the identifier is parsed, the body bound, the clock read
UpdateBegin(w) ==
    /\ racing[w].pc = "idle"
    /\ \E req \in RaceRequests :
        racing' = [racing EXCEPT ![w] =
            IF ObjectIDFromHex(req.id).err
            THEN Done([@ EXCEPT !.req = req], StatusBadRequest, "Invalid record ID")
            ELSE IF req.body.bindErr
            THEN Done([@ EXCEPT !.req = req], StatusBadRequest, "invalid request body")
            ELSE [@ EXCEPT !.pc = "bound", !.req = req, !.t = now]]
    /\ UNCHANGED <<medical_records, nextOID, now, inflight, deletedLog, created,
                   proc, dashboard>>

\* lines 414-428: UpdateOne
UpdateStore(w) ==
    /\ racing[w].pc = "bound"
    /\ LET r == racing[w]
           updateData == [r.req.body.record EXCEPT !.UpdatedAt = r.t]
           result == UpdateOne(medical_records, ObjectIDFromHex(r.req.id).oid, updateData)
       IN  /\ medical_records' = result.coll
           /\ racing' = [racing EXCEPT ![w] =
                 IF result.err
                 THEN Done(r, StatusInternalServerError, "Failed to update record")
                 ELSE IF result.MatchedCount = 0
                 THEN Done(r, StatusNotFound, "Medical record not found")
                 ELSE [r EXCEPT !.pc = "updated"]]
    /\ UNCHANGED <<nextOID, now, inflight, deletedLog, created, proc, dashboard>>

\* lines 430-440: FindOne and the response
UpdateFetch(w) ==
    /\ racing[w].pc = "updated"
    /\ LET r == racing[w]
           found == FindOne(medical_records, ObjectIDFromHex(r.req.id).oid)
       IN  racing' = [racing EXCEPT ![w] =
                 IF found.err # ""
                 THEN Done(r, StatusInternalServerError, "Failed to fetch updated record")
                 ELSE Done(r, StatusOK, found.record)]
    /\ UNCHANGED <<medical_records, nextOID, now, inflight, deletedLog, created,
                   proc, dashboard>>

\* the response reaches the client
UpdateRespond(w) ==
    /\ racing[w].pc = "done"
    /\ racing' = [racing EXCEPT ![w] = IdleRacer]
    /\ UNCHANGED <<medical_records, nextOID, now, inflight, deletedLog, created,
                   proc, dashboard>>

RaceNext ==
    \/ \E w \in Racers : UpdateBegin(w)
    \/ \E w \in Racers : UpdateStore(w)
    \/ \E w \in Racers : UpdateFetch(w)
    \/ \E w \in Racers : UpdateRespond(w)
    \/ ConcurrentDelete
    \/ Tick

SpecRace == RaceInit /\ [][RaceNext]_vars

(***************************************************************************)
(* A fourth specification: the process, from its environment to its exit.  *)
(* proc is the position of main, the environment, the connection string    *)
(* built by connectMongoDB, the database name chosen by main, whether the  *)
(* server listens, the requests being served and whether the store client  *)
(* is connected.  Strings of the configuration are sequences of            *)
(* characters; a variable that is not set reads as the empty string.       *)
(***************************************************************************)
DefaultHost == <<"m", "o", "n", "g", "o">>
DefaultMongoPort == <<"2", "7", "0", "1", "7">>
DefaultDatabase ==
    <<"m", "e", "d", "i", "c", "a", "l", "_", "r", "e", "c", "o", "r", "d", "s", "_", "d", "b">>
Scheme == <<"m", "o", "n", "g", "o", "d", "b", ":", "/", "/">>
AuthSource ==
    <<"?", "a", "u", "t", "h", "S", "o", "u", "r", "c", "e", "=", "a", "d", "m", "i", "n">>

\* the environments the process is started in
Envs ==
    [MONGO_HOST : {<<>>, <<"d", "b">>},
     MONGO_PORT : {<<>>},
     MONGO_DATABASE : {<<>>, <<"r", "e", "c", "o", "r", "d", "s">>},
     MONGO_USERNAME : {<<>>, <<"u">>},
     MONGO_PASSWORD : {<<>>, <<"p">>},
     DB_NAME : {<<>>, <<"r", "e", "c", "o", "r", "d", "s">>, <<"o", "t", "h", "e", "r">>}]

\* v := os.Getenv(key); if v == "" { v = def }
GetenvOr(env, key, def) == IF env[key] = <<>> THEN def ELSE env[key]

\* lines 138-161: the connection string
mongoURI(env) ==
    LET mongoHost == GetenvOr(env, "MONGO_HOST", DefaultHost)
        mongoPort == GetenvOr(env, "MONGO_PORT", DefaultMongoPort)
        mongoDatabase == GetenvOr(env, "MONGO_DATABASE", DefaultDatabase)
        mongoUsername == env["MONGO_USERNAME"]
        mongoPassword == env["MONGO_PASSWORD"]
    IN  IF mongoUsername # <<>> /\ mongoPassword # <<>>
        THEN Scheme \o mongoUsername \o <<":">> \o mongoPassword \o <<"@">> \o mongoHost
             \o <<":">> \o mongoPort \o <<"/">> \o mongoDatabase \o AuthSource
        ELSE Scheme \o mongoHost \o <<":">> \o mongoPort \o <<"/">> \o mongoDatabase

\* lines 556-559: the database the handlers use
dbName(env) == GetenvOr(env, "DB_NAME", DefaultDatabase)

NotStarted(env) ==
    [pc |-> "start", env |-> env, uri |-> <<>>, dbName |-> <<>>, listening |-> FALSE,
     active |-> 0, connected |-> FALSE, signalled |-> FALSE]

ProcInit ==
    /\ proc \in {NotStarted(env) : env \in Envs}
    /\ medical_records = EmptyCollection
    /\ nextOID = 1
    /\ now = StartTime
    /\ inflight = Idle
    /\ deletedLog = {}
    /\ created = NothingCreated
    /\ racing = NoneRacing
    /\ dashboard = NoDashboard

\* connectMongoDB: mongo.Connect and Ping succeed, or logger.Fatalf exits
ConnectMongoDB ==
    /\ proc.pc = "start"
    /\ \E ok \in BOOLEAN :
        proc' = [proc EXCEPT !.uri = mongoURI(proc.env),
                             !.connected = ok,
                             !.pc = IF ok THEN "connected" ELSE "exited"]
    /\ UNCHANGED <<medical_records, nextOID, now, inflight, deletedLog, created,
                   racing, dashboard>>

\* lines 556-586: the database is chosen, the server listens; when
\* ListenAndServe fails, logger.Fatal exits
StartServer ==
    /\ proc.pc = "connected"
    /\ \E ok \in BOOLEAN :
        proc' = [proc EXCEPT !.dbName = dbName(proc.env),
                             !.listening = ok,
                             !.pc = IF ok THEN "serving" ELSE "exited"]
    /\ UNCHANGED <<medical_records, nextOID, now, inflight, deletedLog, created,
                   racing, dashboard>>

\* the server accepts a request
Accept ==
    /\ proc.pc = "serving"
    /\ proc.listening
    /\ proc.active < MaxActive
    /\ proc' = [proc EXCEPT !.active = proc.active + 1]
    /\ UNCHANGED <<medical_records, nextOID, now, inflight, deletedLog, created,
                   racing, dashboard>>

\* a request being served is answered
Finish ==
    /\ proc.pc \in {"serving", "draining"}
    /\ proc.active > 0
    /\ proc' = [proc EXCEPT !.active = proc.active - 1]
    /\ UNCHANGED <<medical_records, nextOID, now, inflight, deletedLog, created,
                   racing, dashboard>>

\* lines 588-594: SIGINT or SIGTERM; server.Shutdown closes the listener
Signal ==
    /\ proc.pc = "serving"
    /\ proc' = [proc EXCEPT !.pc = "draining", !.listening = FALSE, !.signalled = TRUE]
    /\ UNCHANGED <<medical_records, nextOID, now, inflight, deletedLog, created,
                   racing, dashboard>>

\* line 594: server.Shutdown returns nil once no request is being served
ShutdownReturns ==
    /\ proc.pc = "draining"
    /\ proc.active = 0
    /\ proc' = [proc EXCEPT !.pc = "disconnecting"]
    /\ UNCHANGED <<medical_records, nextOID, now, inflight, deletedLog, created,
                   racing, dashboard>>

\* lines 594-596: the 30 seconds pass with a request still served;
\* server.Shutdown returns the context's error and logger.Fatal exits
ShutdownTimesOut ==
    /\ proc.pc = "draining"
    /\ proc.active > 0
    /\ proc' = [proc EXCEPT !.pc = "exited"]
    /\ UNCHANGED <<medical_records, nextOID, now, inflight, deletedLog, created,
                   racing, dashboard>>

\* lines 598-603: client.Disconnect, then main returns
Disconnect ==
    /\ proc.pc = "disconnecting"
    /\ proc' = [proc EXCEPT !.pc = "exited", !.connected = FALSE]
    /\ UNCHANGED <<medical_records, nextOID, now, inflight, deletedLog, created,
                   racing, dashboard>>

ProcNext ==
    \/ ConnectMongoDB \/ StartServer \/ Accept \/ Finish \/ Signal
    \/ ShutdownReturns \/ ShutdownTimesOut \/ Disconnect

SpecProcess == ProcInit /\ [][ProcNext]_vars

(***************************************************************************)
(* A fifth specification: the dashboard's ServiceHealth component and the   *)
(* healthService of api.js.  A text is a sequence of characters, as above.  *)
(* The answer of GET /health-status is an input: the request fails, or it   *)
(* carries the list of the services with the status of each.                *)
(***************************************************************************)
Lower ==
    <<"a", "b", "c", "d", "e", "f", "g", "h", "i", "j", "k", "l", "m",
      "n", "o", "p", "q", "r", "s", "t", "u", "v", "w", "x", "y", "z">>

Upper ==
    <<"A", "B", "C", "D", "E", "F", "G", "H", "I", "J", "K", "L", "M",
      "N", "O", "P", "Q", "R", "S", "T", "U", "V", "W", "X", "Y", "Z">>

Range(s) == {s[i] : i \in DOMAIN s}

\* String.prototype.toUpperCase on one character
toUpperCase(ch) ==
    IF ch \in Range(Lower)
    THEN Upper[CHOOSE i \in DOMAIN Lower : Lower[i] = ch]
    ELSE ch

\* \w of a regular expression
IsWordChar(ch) ==
    ch \in Range(Lower) \cup Range(Upper)
           \cup {"0", "1", "2", "3", "4", "5", "6", "7", "8", "9", "_"}

\* String.prototype.replace with a string pattern: the first occurrence only
replace(s, c, d) ==
    IF c \in Range(s)
    THEN LET first == CHOOSE i \in DOMAIN s :
                          s[i] = c /\ \A j \in 1..(i - 1) : s[j] # c
         IN  [s EXCEPT ![first] = d]
    ELSE s

\* replace(/\b\w/g, l => l.toUpperCase()): every word character that
\* follows a word boundary
Capitalise(s) ==
    [i \in DOMAIN s |->
        IF IsWordChar(s[i]) /\ (i = 1 \/ ~IsWordChar(s[i - 1]))
        THEN toUpperCase(s[i])
        ELSE s[i]]

PatientService == <<"p", "a", "t", "i", "e", "n", "t", "-", "s", "e", "r", "v", "i", "c", "e">>

MedicalRecordsService == <<"m", "e", "d", "i", "c", "a", "l", "-", "r", "e", "c", "o", "r", "d", "s", "-", "s", "e", "r", "v", "i", "c", "e">>

Reported(name, t) ==
    [name |-> name,
     status |-> "healthy",
     health |-> [status |-> "healthy", timestamp |-> t],
     readiness |-> [status |-> "ready", timestamp |-> t],
     response |-> StatusOK]

\* the catch branch of getAllStatus
StaticStatus(t) ==
    <<Reported(<<"P", "a", "t", "i", "e", "n", "t", " ", "S", "e", "r", "v", "i", "c", "e">>, t),
      Reported(<<"A", "p", "p", "o", "i", "n", "t", "m", "e", "n", "t", " ", "S", "e", "r", "v", "i", "c", "e">>, t),
      Reported(<<"M", "e", "d", "i", "c", "a", "l", " ", "R", "e", "c", "o", "r", "d", "s", " ", "S", "e", "r", "v", "i", "c", "e">>, t)>>

RequestFailed == [failed |-> TRUE, services |-> <<>>]

HealthStatuses == {"healthy", "unhealthy"}

\* what GET /health-status can answer
Responses ==
    {RequestFailed}
    \cup {[failed |-> FALSE,
           services |-> <<[name |-> PatientService, status |-> p],
                          [name |-> MedicalRecordsService, status |-> m]>>]
            : p \in HealthStatuses, m \in HealthStatuses}

\* healthService.getAllStatus, at the time t in milliseconds
getAllStatus(response, t) ==
    IF response.failed
    THEN StaticStatus(t)
    ELSE [i \in DOMAIN response.services |->
             Reported(Capitalise(replace(response.services[i].name, "-", " ")), t)]

\* the milliseconds of new Date()
DateNow == now \div TicksPerMs

\* a call of fetchHealthData whose await has not returned
Fetch(by) == [by |-> by, mounted |-> dashboard.mounted]

Remove(s, i) == [j \in 1..(Len(s) - 1) |-> IF j < i THEN s[j] ELSE s[j + 1]]

DashInit ==
    /\ dashboard = NoDashboard
    /\ medical_records = EmptyCollection
    /\ nextOID = 1
    /\ now = StartTime
    /\ inflight = Idle
    /\ deletedLog = {}
    /\ created = NothingCreated
    /\ racing = NoneRacing
    /\ proc = Serving

\* the component mounts: the state of useState, then the effect calls
\* fetchHealthData and sets the interval
Mount ==
    /\ dashboard = NoDashboard
    /\ dashboard' = [mounted |-> TRUE,
                     interval |-> TRUE,
                     loading |-> TRUE,
                     services |-> <<>>,
                     lastUpdated |-> 0,
                     pending |-> <<[by |-> "mount", mounted |-> TRUE]>>,
                     response |-> RequestFailed,
                     answered |-> FALSE]
    /\ UNCHANGED <<medical_records, nextOID, now, inflight, deletedLog, created,
                   racing, proc>>

\* the interval fires and calls fetchHealthData, up to its await
IntervalFires ==
    /\ dashboard # NoDashboard
    /\ dashboard.interval
    /\ Len(dashboard.pending) < MaxFetches
    /\ dashboard' = [dashboard EXCEPT
                        !.loading = IF dashboard.mounted THEN TRUE ELSE dashboard.loading,
                        !.pending = Append(dashboard.pending, Fetch("interval"))]
    /\ UNCHANGED <<medical_records, nextOID, now, inflight, deletedLog, created,
                   racing, proc>>

\* the Refresh button, disabled while loading
Refresh ==
    /\ dashboard # NoDashboard
    /\ dashboard.mounted
    /\ ~dashboard.loading
    /\ Len(dashboard.pending) < MaxFetches
    /\ dashboard' = [dashboard EXCEPT
                        !.loading = TRUE,
                        !.pending = Append(dashboard.pending, Fetch("refresh"))]
    /\ UNCHANGED <<medical_records, nextOID, now, inflight, deletedLog, created,
                   racing, proc>>

\* GET /health-status of one fetch is answered or fails; fetchHealthData
\* goes on after its await, through its finally.  getAllStatus cannot
\* throw, so the catch of fetchHealthData is never entered.  The setters
\* of an unmounted component change nothing.
FetchCompletes ==
    /\ dashboard # NoDashboard
    /\ \E i \in DOMAIN dashboard.pending, response \in Responses :
        dashboard' =
            IF dashboard.mounted
            THEN [dashboard EXCEPT
                     !.services = getAllStatus(response, DateNow),
                     !.lastUpdated = DateNow,
                     !.loading = FALSE,
                     !.pending = Remove(dashboard.pending, i),
                     !.response = response,
                     !.answered = TRUE]
            ELSE [dashboard EXCEPT !.pending = Remove(dashboard.pending, i)]
    /\ UNCHANGED <<medical_records, nextOID, now, inflight, deletedLog, created,
                   racing, proc>>

\* the cleanup of the effect: clearInterval
Unmount ==
    /\ dashboard # NoDashboard
    /\ dashboard.mounted
    /\ dashboard' = [dashboard EXCEPT !.mounted = FALSE, !.interval = FALSE]
    /\ UNCHANGED <<medical_records, nextOID, now, inflight, deletedLog, created,
                   racing, proc>>

DashNext ==
    \/ Mount
    \/ IntervalFires
    \/ Refresh
    \/ FetchCompletes
    \/ Unmount
    \/ Tick

SpecDashboard == DashInit /\ [][DashNext]_vars

(***************************************************************************)
(* Properties.  A step serves a request when it leaves the idle state; the *)
(* unprimed variables are then the state before the request and inflight'  *)
(* the request with its answer.                                            *)
(***************************************************************************)
Serves(op) == inflight.status = 0 /\ inflight'.req.op = op

Answered(op) == inflight.req.op = op /\ inflight.req.fault = NoFault

\* the identifier string is 24 hexadecimal characters
WellFormedId(id) ==
    /\ Len(id) = 24
    /\ \A i \in 1..Len(id) :
          id[i] \in {"0", "1", "2", "3", "4", "5", "6", "7", "8", "9",
                     "a", "b", "c", "d", "e", "f", "A", "B", "C", "D", "E", "F"}

\* the fields of a record that the client supplies and the service keeps
ClientFields(record) ==
    [f \in DOMAIN record \ {"ID", "CreatedAt", "UpdatedAt"} |-> record[f]]

\* C1: for every valid Create payload (the store call not failing) the response
\* is 201 with a non-empty server-generated identifier and created_at equal to
\* updated_at, and exactly one new document is persisted.
C1_CreateAssignsIdAndEqualTimestamps ==
    [][(/\ Serves("create")
        /\ inflight'.req.fault = NoFault
        /\ ~inflight'.req.body.bindErr
        /\ inflight'.req.body.record \in ValidRecords)
       => /\ inflight'.status = StatusCreated
          /\ inflight'.body.ID # NilObjectID
          /\ inflight'.body.ID \notin DOMAIN medical_records
          /\ inflight'.body.CreatedAt = inflight'.body.UpdatedAt
          /\ DOMAIN medical_records' = DOMAIN medical_records \cup {inflight'.body.ID}
          /\ \A i \in DOMAIN medical_records : medical_records'[i] = medical_records[i]
      ]_vars

\* C2: after a successful Update of an existing record, whether or not the
\* payload carries created_at, the stored created_at is the one before the
\* update and the stored updated_at is strictly greater than it.
C2_UpdateKeepsCreatedAt ==
    [][(Serves("update") /\ inflight'.status = StatusOK)
       => LET oid == ObjectIDFromHex(inflight'.req.id).oid
          IN  /\ medical_records'[oid].CreatedAt = medical_records[oid].CreatedAt
              /\ medical_records'[oid].UpdatedAt > medical_records[oid].CreatedAt
      ]_vars

\* the least integer that is not below total / limit
CeilOfQuotient(total, limit) ==
    CHOOSE n \in -(Abs(total) + 1)..(Abs(total) + 1) :
        IF limit > 0
        THEN n * limit >= total /\ (n - 1) * limit < total
        ELSE n * limit <= total /\ (n - 1) * limit > total

\* C3: in every List response with status 200, total_pages = ceil(total / limit),
\* has_next = (page < total_pages) and has_previous = (page > 1), for the page and
\* limit echoed and total the number of records matching the filters.
C3_Pagination ==
    (inflight.req.op = "list" /\ inflight.status = StatusOK)
    => /\ inflight.body.total = Cardinality({i \in DOMAIN medical_records :
              /\ inflight.req.query.patient_id \in {"", medical_records[i].PatientID}
              /\ inflight.req.query.record_type \in {"", medical_records[i].RecordType}})
       /\ inflight.body.total_pages = CeilOfQuotient(inflight.body.total, inflight.body.limit)
       /\ inflight.body.has_next = (inflight.body.page < inflight.body.total_pages)
       /\ inflight.body.has_previous = (inflight.body.page > 1)

\* a page or limit value that is given and is not a positive number
MalformedNumber(q) == q.present /\ Atoi(q.value) <= 0

\* C4: a List request whose page or limit value is malformed (non-numeric, zero
\* or negative) is not rejected and does not fail: it is answered 200, served as
\* page 1 and/or the default page size of 10.
C4_MalformedPaginationCoerced ==
    (/\ Answered("list")
     /\ (MalformedNumber(inflight.req.query.page) \/ MalformedNumber(inflight.req.query.limit)))
    => /\ inflight.status = StatusOK
       /\ MalformedNumber(inflight.req.query.page) => inflight.body.page = 1
       /\ MalformedNumber(inflight.req.query.limit) => inflight.body.limit = 10

\* the entries of one nested sequence over all the records of a patient
EntriesOf(patientID, field) ==
    UNION {{<<i, k>> : k \in DOMAIN medical_records[i][field].elems} :
              i \in {j \in DOMAIN medical_records : medical_records[j].PatientID = patientID}}

\* C5: for a patient with at least one stored record, Patient summary returns
\* total_records = the number of that patient's records, and total_diagnoses,
\* total_prescriptions and total_lab_results = the number of entries of the
\* respective sequence over those records, a null sequence counting zero and the
\* records of other patients nothing.
C5_SummaryCounts ==
    (/\ Answered("summary")
     /\ \E i \in DOMAIN medical_records :
           medical_records[i].PatientID = inflight.req.patient_id)
    => /\ inflight.status = StatusOK
       /\ inflight.body.total_records =
             Cardinality({i \in DOMAIN medical_records :
                             medical_records[i].PatientID = inflight.req.patient_id})
       /\ inflight.body.total_diagnoses =
             Cardinality(EntriesOf(inflight.req.patient_id, "Diagnosis"))
       /\ inflight.body.total_prescriptions =
             Cardinality(EntriesOf(inflight.req.patient_id, "Prescriptions"))
       /\ inflight.body.total_lab_results =
             Cardinality(EntriesOf(inflight.req.patient_id, "LabResults"))

\* a patient with two sequences of entries, one null sequence, and another
\* patient's record with entries in the store
C5_Witness ==
    /\ Answered("summary")
    /\ inflight.status = StatusOK
    /\ inflight.body.total_diagnoses = 2
    /\ inflight.body.total_lab_results = 0
    /\ \E i \in DOMAIN medical_records :
          /\ medical_records[i].PatientID = inflight.req.patient_id
          /\ medical_records[i].LabResults.null
    /\ \E i \in DOMAIN medical_records :
          /\ medical_records[i].PatientID # inflight.req.patient_id
          /\ Len(medical_records[i].LabResults.elems) > 0

\* C6: Patient summary for a patient with zero stored records (never created, or
\* all deleted) answers 404, and no summary with total_records 0 is returned.
C6_SummaryOfNoRecords ==
    /\ (/\ Answered("summary")
        /\ \A i \in DOMAIN medical_records :
              medical_records[i].PatientID # inflight.req.patient_id)
       => inflight.status = StatusNotFound
    /\ (inflight.req.op = "summary" /\ inflight.status = StatusOK)
       => inflight.body.total_records >= 1

\* the summary of a patient asked for after the only record was deleted
C6_Witness ==
    /\ Answered("summary")
    /\ inflight.status = StatusNotFound
    /\ DOMAIN medical_records = {}
    /\ deletedLog # {}

\* a time cut down to whole milliseconds
WholeMs(t) == (t \div TicksPerMs) * TicksPerMs

\* a record with the timestamps of its nested entries at whole milliseconds
AtWholeMs(record) ==
    [record EXCEPT
        !.Diagnosis.elems = [i \in DOMAIN @ |->
                                [@[i] EXCEPT !.DateDiagnosed = WholeMs(@)]],
        !.VitalSigns.MeasuredAt = WholeMs(@)]

\* the request is a Get of the record the client holds from its Create
GetOfCreated ==
    /\ Answered("get")
    /\ created.held
    /\ inflight.req.id = Hex(created.record.ID)

\* C7 (as stated): a Get-by-id on the identifier Create returned, with no update
\* or delete of it in between, returns a record equal field for field to the
\* created one, apart from the server-assigned fields.
C7_RoundTripExact ==
    GetOfCreated
    => /\ inflight.status = StatusOK
       /\ ClientFields(inflight.body) = ClientFields(created.record)

\* C7 (amended): the record returned equals the created one field for field,
\* apart from the server-assigned fields, with every client-supplied timestamp
\* cut down to whole milliseconds.
C7_RoundTripAtWholeMs ==
    GetOfCreated
    => /\ inflight.status = StatusOK
       /\ ClientFields(inflight.body) = ClientFields(AtWholeMs(created.record))

\* the record created carried a time between two milliseconds
C7_Witness ==
    /\ GetOfCreated
    /\ inflight.status = StatusOK
    /\ ~created.record.VitalSigns.null
    /\ created.record.VitalSigns.MeasuredAt # inflight.body.VitalSigns.MeasuredAt
    /\ inflight.body.Diagnosis = AtWholeMs(created.record).Diagnosis

\* C8: after a successful Delete of an identifier, every later Get-by-id and
\* every later Delete of it (whose store call does not fail) answers 404; a
\* Delete of an identifier never created answers 404 too and changes nothing.
C8_DeletedStaysNotFound ==
    [][((Serves("get") \/ Serves("delete"))
        /\ inflight'.req.fault = NoFault
        /\ WellFormedId(inflight'.req.id))
       => LET oid == ObjectIDFromHex(inflight'.req.id).oid
          IN  /\ oid \in deletedLog
                 => /\ inflight'.status = StatusNotFound
                    /\ medical_records' = medical_records
              /\ (Serves("delete") /\ (oid = NilObjectID \/ oid >= nextOID))
                 => /\ inflight'.status = StatusNotFound
                    /\ medical_records' = medical_records
      ]_vars

\* a Get of a deleted identifier, answered while another record is stored
C8_Witness ==
    /\ Answered("get")
    /\ inflight.status = StatusNotFound
    /\ ObjectIDFromHex(inflight.req.id).oid \in deletedLog
    /\ DOMAIN medical_records # {}

\* C9: Get-by-id answers 400 when the identifier string does not parse as a
\* store-native identifier, and that without any store call; 404 when it parses
\* and no record has it; otherwise 200 with the full stored record.
C9_GetById ==
    inflight.req.op = "get"
    => /\ ~WellFormedId(inflight.req.id)
          => inflight.status = StatusBadRequest /\ inflight.calls = 0
       /\ (/\ WellFormedId(inflight.req.id)
           /\ inflight.req.fault = NoFault
           /\ \A i \in DOMAIN medical_records : Hex(i) # inflight.req.id)
          => inflight.status = StatusNotFound
       /\ \A i \in DOMAIN medical_records :
             (Hex(i) = inflight.req.id /\ inflight.req.fault = NoFault)
             => inflight.status = StatusOK /\ inflight.body = medical_records[i]

\* a string of hexadecimal characters that is one character short
C9_Witness ==
    /\ Answered("get")
    /\ Len(inflight.req.id) = 23
    /\ \A i \in 1..23 : inflight.req.id[i] \in {"0", "1"}
    /\ inflight.status = StatusBadRequest
    /\ inflight.calls = 0
    /\ DOMAIN medical_records # {}

\* C10: a Create payload that lacks patient_id, doctor_id, record_type or title,
\* or whose record_type is not one of the five values, is answered 400 with the
\* violated fields and no document is inserted.
C10_InvalidCreateRejected ==
    [][(/\ Serves("create")
        /\ ~inflight'.req.body.bindErr
        /\ \/ inflight'.req.body.record.PatientID = ""
           \/ inflight'.req.body.record.DoctorID = ""
           \/ inflight'.req.body.record.Title = ""
           \/ inflight'.req.body.record.RecordType \notin
                 {"consultation", "diagnosis", "prescription", "lab_result", "imaging"})
       => /\ inflight'.status = StatusBadRequest
          /\ inflight'.body # {}
          /\ medical_records' = medical_records
      ]_vars

\* a record_type outside the five values, sent while a record is stored
C10_Witness ==
    /\ Answered("create")
    /\ ~inflight.req.body.bindErr
    /\ inflight.req.body.record.RecordType = "unknown"
    /\ inflight.status = StatusBadRequest
    /\ inflight.body = {"RecordType"}
    /\ DOMAIN medical_records # {}

\* C11: after any sequence of Create, Update and Delete requests, every stored
\* record has a record_type that is one of the five enumerated values.
C11_RecordTypeEnumerated ==
    \A i \in DOMAIN medical_records :
        medical_records[i].RecordType \in
            {"consultation", "diagnosis", "prescription", "lab_result", "imaging"}

\* the closed sets of the nested entries' enumerated fields
SeverityValues == {"mild", "moderate", "severe", "critical"}
DiagnosisStatusValues == {"active", "resolved", "chronic"}
LabStatusValues == {"normal", "abnormal", "critical"}

\* every nested entry of the record has its enumerated fields in their sets
NestedEnumsClosed(record) ==
    /\ \A k \in DOMAIN record.Diagnosis.elems :
          /\ record.Diagnosis.elems[k].Severity \in SeverityValues
          /\ record.Diagnosis.elems[k].Status \in DiagnosisStatusValues
    /\ \A k \in DOMAIN record.LabResults.elems :
          record.LabResults.elems[k].Status \in LabStatusValues

\* C12: every nested entry of every stored record has its enumerated field in
\* its closed set (diagnosis severity, diagnosis status, lab-result status), and
\* a Create payload with a nested entry outside these sets is rejected.
C12_NestedEnumsClosed ==
    /\ \A i \in DOMAIN medical_records : NestedEnumsClosed(medical_records[i])
    /\ (/\ Answered("create")
        /\ ~inflight.req.body.bindErr
        /\ ~NestedEnumsClosed(inflight.req.body.record))
       => inflight.status = StatusBadRequest

\* C13: after any sequence of Create and Update requests with arbitrary
\* payloads, every stored record has updated_at >= created_at.
C13_UpdatedNotBeforeCreated ==
    \A i \in DOMAIN medical_records :
        medical_records[i].UpdatedAt >= medical_records[i].CreatedAt

\* C14: no Update request, whatever id its payload carries, changes the
\* identifier of a stored record or makes a record reachable under another
\* identifier: the same identifiers are stored before and after, and each
\* names a record that carries it.
C14_IdentifierImmutable ==
    [][Serves("update")
       => /\ DOMAIN medical_records' = DOMAIN medical_records
          /\ \A i \in DOMAIN medical_records :
                /\ medical_records[i].ID = i
                /\ medical_records'[i].ID = i
      ]_vars

\* an Update of a stored record whose payload carries another record's id
C14_Witness ==
    /\ Answered("update")
    /\ ~inflight.req.body.bindErr
    /\ inflight.req.body.record.ID \in DOMAIN medical_records
    /\ ObjectIDFromHex(inflight.req.id).oid \in DOMAIN medical_records
    /\ ObjectIDFromHex(inflight.req.id).oid # inflight.req.body.record.ID
    /\ inflight.status = StatusInternalServerError

\* C15: an Update (well-formed identifier, body that binds, store call not
\* failing) whose identifier matches no stored record is answered 404 and leaves
\* the store as it was: no record is created and none is modified.
C15_UpdateOfMissingNotFound ==
    [][(/\ Serves("update")
        /\ inflight'.req.fault = NoFault
        /\ ~inflight'.req.body.bindErr
        /\ WellFormedId(inflight'.req.id)
        /\ \A i \in DOMAIN medical_records : Hex(i) # inflight'.req.id)
       => /\ inflight'.status = StatusNotFound
          /\ medical_records' = medical_records
      ]_vars

\* an Update of an identifier that was deleted, while another record is stored
C15_Witness ==
    /\ Answered("update")
    /\ ~inflight.req.body.bindErr
    /\ ObjectIDFromHex(inflight.req.id).oid \in deletedLog
    /\ inflight.status = StatusNotFound
    /\ DOMAIN medical_records # {}

\* C16: a Delete answered 204 has no content and removes exactly the record of
\* the given identifier, every other record staying as it was; and no later
\* List, Get-by-id or Patient summary shows a deleted record.
C16_DeleteRemovesExactlyOne ==
    [][/\ (Serves("delete") /\ inflight'.status = StatusNoContent)
          => LET oid == ObjectIDFromHex(inflight'.req.id).oid
             IN  /\ inflight'.body = ""
                 /\ oid \in DOMAIN medical_records
                 /\ DOMAIN medical_records' = DOMAIN medical_records \ {oid}
                 /\ \A i \in DOMAIN medical_records' :
                       medical_records'[i] = medical_records[i]
       /\ (Serves("list") /\ inflight'.status = StatusOK)
          => \A k \in DOMAIN inflight'.body.records :
                inflight'.body.records[k].ID \notin deletedLog
       /\ (Serves("get") /\ inflight'.status = StatusOK)
          => inflight'.body.ID \notin deletedLog
       /\ (Serves("summary") /\ inflight'.status = StatusOK)
          => inflight'.body.total_records =
                Cardinality({i \in DOMAIN medical_records \ deletedLog :
                                medical_records[i].PatientID = inflight'.req.patient_id})
      ]_vars

\* a Delete answered 204 that leaves another record in the store
C16_Witness ==
    /\ Answered("delete")
    /\ inflight.status = StatusNoContent
    /\ inflight.body = ""
    /\ ObjectIDFromHex(inflight.req.id).oid \in deletedLog
    /\ ObjectIDFromHex(inflight.req.id).oid \notin DOMAIN medical_records
    /\ DOMAIN medical_records # {}

\* the stored records that equal the filters given (an empty filter is none)
Filtered(query) ==
    {i \in DOMAIN medical_records :
        /\ query.patient_id \in {"", medical_records[i].PatientID}
        /\ query.record_type \in {"", medical_records[i].RecordType}}

\* the sequence is the positions from..to of s, as far as s goes
IsSlice(records, s, from, to) ==
    /\ Len(records) = Cardinality({k \in from..to : k \in DOMAIN s})
    /\ \A k \in DOMAIN records : records[k] = medical_records[s[from + k - 1]]

\* C17: every List response with status 200 contains only records that equal
\* the filters, in descending order of created_at, at most limit of them, and
\* they are the positions (page-1)*limit+1 .. page*limit of the filtered
\* collection in one descending order of created_at, for the page and limit
\* echoed.
C17_ListPage ==
    (inflight.req.op = "list" /\ inflight.status = StatusOK)
    => LET b == inflight.body
           ids == Filtered(inflight.req.query)
       IN  /\ \A k \in DOMAIN b.records : b.records[k].ID \in ids
           /\ \A j, k \in DOMAIN b.records :
                 j < k => b.records[j].CreatedAt >= b.records[k].CreatedAt
           /\ Len(b.records) <= b.limit
           /\ \E s \in SortedByCreatedAtDesc(medical_records, ids) :
                 IsSlice(b.records, s, (b.page - 1) * b.limit + 1, b.page * b.limit)

\* a store call of the request failed: the handler reached the call that the
\* request's fault names (an Update answers 404 before its second call)
StoreCallFailed ==
    /\ inflight.req.op \in {"list", "get", "create", "update", "delete", "summary"}
    /\ inflight.req.fault # NoFault
    /\ (inflight.req.op = "update" /\ inflight.req.fault = "find_failed")
       => inflight.calls = 2

\* C18: whenever a store call fails inside a handler (list, get, create, update,
\* delete, summary) the response has status 500 and one of the fixed messages;
\* and no response to the caller, of any endpoint, carries the text of the
\* store's error.
C18_StoreErrorNotLeaked ==
    /\ StoreCallFailed
       => /\ inflight.status = StatusInternalServerError
          /\ inflight.body \in
                {"Failed to count records", "Failed to fetch records",
                 "Failed to decode records", "Failed to fetch record",
                 "Failed to create record", "Failed to update record",
                 "Failed to fetch updated record", "Failed to delete record",
                 "Failed to generate summary", "Failed to decode summary"}
    /\ inflight.req.op = "ready"
       => \A f \in DOMAIN inflight.body : inflight.body[f] # inflight.req.err

\* C19: whenever a request is answered 500 after a store call of it failed or
\* timed out, the store is as it was before the request: nothing of the request
\* is persisted; in particular an Update answered 500 has not modified the
\* record.
C19_InternalErrorPersistsNothing ==
    [][(/\ inflight.status = 0
        /\ inflight'.status = StatusInternalServerError
        /\ inflight'.calls > 0)
       => medical_records' = medical_records
      ]_vars

\* C20: under any interleaving with Create and Delete requests, every List
\* response reflects one state of the store: its total is the number of records
\* matching the filter in the state from which its page of records was read.
C20_ListReflectsOneState ==
    [][(/\ inflight.status = 0
        /\ inflight'.req.op = "list"
        /\ inflight'.status = StatusOK)
       => inflight'.body.total = Cardinality(Filtered(inflight'.req.query))
      ]_vars

\* C22: GET /health is answered 200 in every state, the store reachable or
\* not; GET /ready is answered 200 exactly when the ping of the store succeeds,
\* and otherwise 503 with the detail of the error.
C22_HealthAndReadiness ==
    /\ inflight.req.op = "health" => inflight.status = StatusOK
    /\ inflight.req.op = "ready"
       => /\ inflight.status = StatusOK <=> inflight.req.fault = NoFault
          /\ inflight.req.fault # NoFault
             => /\ inflight.status = StatusServiceUnavailable
                /\ inflight.body.error = inflight.req.err
                /\ inflight.body.error # ""

\* /ready answered 503 with the error of the ping, with records in the store
C22_Witness ==
    /\ inflight.req.op = "ready"
    /\ inflight.req.fault = "ping_failed"
    /\ inflight.status = StatusServiceUnavailable
    /\ inflight.body.error = "context deadline exceeded"
    /\ DOMAIN medical_records # {}

\* C23: created_by and last_modified_by of a stored record are set by the
\* service on Create and Update: a value the payload carries for them is never
\* what is stored.
C23_AuditFieldsServerAssigned ==
    [][((Serves("create") \/ Serves("update"))
        /\ inflight'.status \in {StatusCreated, StatusOK})
       => LET sent == inflight'.req.body.record
              stored == medical_records'[inflight'.body.ID]
          IN  /\ sent.CreatedBy # "" => stored.CreatedBy # sent.CreatedBy
              /\ sent.LastModifiedBy # "" => stored.LastModifiedBy # sent.LastModifiedBy
      ]_vars

\* C25 (as stated): after an Update answered 200, every field of the stored
\* record but the identifier equals the payload's value, the zero value where
\* the payload omitted the field and never the previous value, and updated_at
\* is the current time.
C25_UpdateReplacesExact ==
    [][(Serves("update") /\ inflight'.status = StatusOK)
       => LET oid == ObjectIDFromHex(inflight'.req.id).oid
          IN  medical_records'[oid] =
                  [inflight'.req.body.record EXCEPT !.ID = oid, !.UpdatedAt = now]
      ]_vars

\* C25 (amended): the same, with every time of the stored record cut down to
\* whole milliseconds: those of the payload and the current time in updated_at.
C25_UpdateReplacesAtWholeMs ==
    [][(Serves("update") /\ inflight'.status = StatusOK)
       => LET oid == ObjectIDFromHex(inflight'.req.id).oid
              sent == inflight'.req.body.record
          IN  medical_records'[oid] =
                  [AtWholeMs(sent) EXCEPT !.ID = oid,
                                          !.CreatedAt = WholeMs(sent.CreatedAt),
                                          !.UpdatedAt = WholeMs(now)]
      ]_vars

\* an Update answered 200 whose payload omitted the required fields: they are
\* stored empty, which no Create stores
C25_Witness ==
    /\ Answered("update")
    /\ inflight.status = StatusOK
    /\ inflight.req.body.record.PatientID = ""
    /\ medical_records[inflight.body.ID].PatientID = ""
    /\ medical_records[inflight.body.ID].RecordType = ""
    /\ medical_records[inflight.body.ID].Title = "Renamed"

\* C28: no two stored records share an identifier, and a Create answered 201,
\* whatever id, created_at or updated_at its payload carries, stores one new
\* record under the fresh identifier with the times of the server's clock,
\* every record stored before staying as it was.
C28_CreateIsFresh ==
    [][(Serves("create") /\ inflight'.status = StatusCreated)
       => LET id == inflight'.body.ID
          IN  /\ id = nextOID
              /\ id \notin DOMAIN medical_records \cup deletedLog
              /\ DOMAIN medical_records' = DOMAIN medical_records \cup {id}
              /\ \A i \in DOMAIN medical_records : medical_records'[i] = medical_records[i]
              /\ \A i \in DOMAIN medical_records' : medical_records'[i].ID = i
              /\ medical_records'[id].CreatedAt = WholeMs(now)
              /\ medical_records'[id].UpdatedAt = WholeMs(now')
      ]_vars

\* a Create answered 201 whose payload carried the id of a stored record and
\* times of its own
C28_Witness ==
    /\ Answered("create")
    /\ inflight.status = StatusCreated
    /\ inflight.req.body.record.ID \in DOMAIN medical_records
    /\ inflight.req.body.record.ID # inflight.body.ID
    /\ inflight.req.body.record.CreatedAt # ZeroTime
    /\ medical_records[inflight.body.ID].CreatedAt # inflight.req.body.record.CreatedAt

\* the document that the $set of goroutine w's Update leaves under oid
Written(w, oid) ==
    LET sent == racing[w].req.body.record
    IN  [AtWholeMs(sent) EXCEPT !.ID = oid,
                                !.CreatedAt = WholeMs(sent.CreatedAt),
                                !.UpdatedAt = WholeMs(racing[w].t)]

\* both goroutines have answered an Update of the same stored record
BothUpdated(oid) ==
    /\ oid \in DOMAIN medical_records
    /\ \A w \in Racers :
          /\ racing[w].pc = "done"
          /\ racing[w].req.id = Hex(oid)
          /\ ~racing[w].req.body.bindErr

\* C21: when two Update requests for the same identifier run concurrently (the
\* record not being deleted meanwhile), both are answered 200 and the stored
\* record is the one a serial order of the two writes leaves: the whole document
\* of the later write, no field of it coming from the other payload.
C21_RacingUpdatesLastWins ==
    \A oid \in DOMAIN medical_records :
        BothUpdated(oid)
        => /\ \A w \in Racers : racing[w].status = StatusOK
           /\ \E w \in Racers : medical_records[oid] = Written(w, oid)

\* the two writes interleaved: one goroutine's response carries the title the
\* other one wrote
C21_Witness ==
    /\ BothUpdated(1)
    /\ racing["a"].status = StatusOK
    /\ racing["b"].status = StatusOK
    /\ racing["a"].req.body.record.Title # racing["b"].req.body.record.Title
    /\ racing["a"].body.Title = racing["b"].req.body.record.Title
    /\ medical_records[1] = Written("b", 1)

\* C27: with no store failure and no timeout, an Update on a well-formed
\* identifier is answered 200 or 404 under every interleaving with Delete
\* requests for the same identifier, never 500.
C27_UpdateRacingDeleteNever500 ==
    \A w \in Racers :
        (/\ racing[w].pc = "done"
         /\ WellFormedId(racing[w].req.id)
         /\ ~racing[w].req.body.bindErr)
        => racing[w].status \in {StatusOK, StatusNotFound}

\* C26: on SIGINT or SIGTERM the process stops accepting requests, lets the
\* requests being served drain and only then closes the store handle: the
\* handle is never closed while a request is being served, and on every
\* shutdown path the process has closed it when it exits.
C26_OrderlyShutdown ==
    proc.signalled
    => /\ ~proc.listening
       /\ ~proc.connected => proc.active = 0
       /\ proc.pc = "exited" => ~proc.connected

\* the place of the first occurrence of c in s from position from on, or
\* Len(s) + 1
IndexFrom(s, c, from) ==
    IF \E i \in from..Len(s) : s[i] = c
    THEN CHOOSE i \in from..Len(s) : s[i] = c /\ \A j \in from..(i - 1) : s[j] # c
    ELSE Len(s) + 1

\* the database component of a connection string: between the slash that ends
\* the hosts and the question mark, if any
DatabaseOf(uri) ==
    LET slash == IndexFrom(uri, "/", Len(Scheme) + 1)
    IN  SubSeq(uri, slash + 1, IndexFrom(uri, "?", slash) - 1)

\* the connection string has a user-information part before its hosts
HasCredentials(uri) ==
    \E i \in (Len(Scheme) + 1)..(IndexFrom(uri, "/", Len(Scheme) + 1) - 1) : uri[i] = "@"

\* C29: for every environment, the database name chosen in main is the
\* database component of the connection string built by connectMongoDB, and
\* the connection string carries credentials exactly when username and
\* password are both non-empty.
C29_DatabaseOfConnectionString ==
    proc.pc \in {"serving", "draining", "disconnecting"}
    => /\ proc.dbName = DatabaseOf(proc.uri)
       /\ HasCredentials(proc.uri)
          <=> (proc.env["MONGO_USERNAME"] # <<>> /\ proc.env["MONGO_PASSWORD"] # <<>>)


\* C24: the dashboard's health monitoring reflects the real health of the
\* services: a service that /health-status answers as unhealthy is not
\* reported by getAllStatus with status 'healthy', and when the request
\* fails no service is reported with status 'healthy'.
C24_ReportsRealHealth ==
    (dashboard # NoDashboard /\ dashboard.answered)
    => IF dashboard.response.failed
       THEN \A i \in DOMAIN dashboard.services :
                dashboard.services[i].status # "healthy"
       ELSE /\ Len(dashboard.services) = Len(dashboard.response.services)
            /\ \A i \in DOMAIN dashboard.services :
                dashboard.response.services[i].status # "healthy"
                => dashboard.services[i].status # "healthy"

\* C30: while the ServiceHealth component is mounted, loading is true
\* exactly when a call of fetchHealthData awaits its answer, also when the
\* interval starts a fetch before an earlier one completed; and no fetch
\* the interval started was started after the component was unmounted.
C30_LoadingTracksFetches ==
    dashboard # NoDashboard
    => /\ dashboard.mounted => (dashboard.loading <=> dashboard.pending # <<>>)
       /\ \A i \in DOMAIN dashboard.pending :
            dashboard.pending[i].by = "interval" => dashboard.pending[i].mounted

====
